---- MODULE Spec2Model ----
(***************************************************************************)
(* Verification model of the logging plugins of this repository:          *)
(*   - MessageStorage            (src/MessageLoggerv2/storage.ts)          *)
(*   - MessageLoggerv2 plugin    (src/unnamed/part_000, second module)     *)
(*   - VoiceChannelLogger plugin (src/unnamed/part_002, second module)     *)
(*   - AutoMuter plugin          (src/unnamed/part_000, first module)      *)
(* Every subsystem has its own specification over the shared variables;   *)
(* the variables of the other subsystems keep their initial values.       *)
(*                                                                         *)
(* Scaling.  The source keeps at most 1000 messages per user.  A list of  *)
(* 1001 records cannot be enumerated, so maxMessagesPerUser is scaled to  *)
(* 2 and the maxMessages setting (100..10000 in the source) to 1..3; the  *)
(* order  min < hard-coded limit < max  of the source is kept.  The voice  *)
(* log's default maxLogEntries (1000) is scaled to 2, and AutoMuter's     *)
(* window of 10 audio samples with a minimum of 5 to 3 and 2.  All times  *)
(* are in milliseconds and keep the values of the source; the clock is    *)
(* read in steps of TickStep, so a delay shorter than a step is due at    *)
(* the reading in which it was set.                                       *)
(***************************************************************************)
EXTENDS Integers, Sequences, FiniteSets, TLC

(***************************************************************************)
(* Bounds of the model                                                     *)
(***************************************************************************)
MaxMsgId == 3            \* message ids handed to MessageStorage.addMessage
MaxHostMsgs == 2         \* messages the host creates in the plugin specification
VoiceMaxNow == 10000     \* last clock value of the voice specification
MaxVoiceLog == 2         \* entries of the voice log when maxLogEntries is 0
MuterMaxNow == 10000     \* last clock value of the AutoMuter specification
TickStep == 2500         \* granularity of the clock (ms); the clock starts at TickStep

(***************************************************************************)
(* Values                                                                  *)
(***************************************************************************)
Undefined == 0 - 1       \* JavaScript undefined for an optional timestamp
NoGuild == "null"        \* guild_id null (a DM, or no guild selected)
Me == "me"               \* UserStore.getCurrentUser().id
MsgUsers == {"me", "u1", "b1"}
MsgBots == {"b1"}        \* users whose author.bot is true
Channels == {"dm"}
Guilds == {NoGuild, "G"}

Max(a, b) == IF a > b THEN a ELSE b
Min(a, b) == IF a < b THEN a ELSE b

VARIABLES
    now,            \* Date.now()
    storage,        \* MessageStorage.storage : userId -> UserMessageLog
    localStorage,   \* localStorage['vencord-message-logger-v2']
    quotaExceeded,  \* localStorage.setItem throws (the quota is used up)
    msettings,      \* MessageLoggerv2 settings.store
    cache,          \* the host's MessageStore: message id -> message
    nextId,         \* next message id the host hands out
    currentGuild,   \* getCurrentGuild()?.id
    clean           \* the plugin's cleanDMMessages call that is under way

msgVars == <<storage, localStorage, quotaExceeded, msettings, cache, nextId, currentGuild,
            clean>>

VARIABLES
    vsettings,                    \* VoiceChannelLogger settings.store
    voiceChannel,                 \* host: userId -> voice channel (VoiceStateStore;
                                  \* for Me also SelectedChannelStore.getVoiceChannelId())
    lastUserChannelId,
    suppressToastsUntil,
    pluginInitialized,
    initializationSuppressUntil,
    initializationStartTime,
    processedUsersDuringInit,
    userSessions,                 \* userId -> join timestamp, Undefined when absent
    voiceLogs,                    \* DataStore[LOG_KEY], most recent first
    openJoin,                     \* history: userId -> time and channel of the user's
                                  \* logged join that no logged leave has followed
    recentSwitch,                 \* history: time of the current user's channel switch
                                  \* seen in the last TOAST_SUPPRESSION_DURATION ms
    startup                       \* history: the initialization of the last
                                  \* INITIALIZATION_SUPPRESSION_DURATION ms: its time,
                                  \* the users then in the channel, the users whose
                                  \* join was logged since, the users then in the
                                  \* channel a join event of whom was seen since

voiceVars == <<vsettings, voiceChannel, lastUserChannelId, suppressToastsUntil,
               pluginInitialized, initializationSuppressUntil, initializationStartTime,
               processedUsersDuringInit, userSessions, voiceLogs,
               openJoin, recentSwitch, startup>>

VARIABLES
    asettings,          \* AutoMuter settings.store
    relationship,       \* host: RelationshipStore.getRelationshipType(userId)
    volume,             \* host: local volume of a user in percent
    hostMode,           \* host: what a call of setLocalVolume does
    subscribed,         \* start() has subscribed the Flux handlers
    processedUsers,
    mutedUsers,         \* userId -> unmute timestamp, Undefined when absent
    audioLevels,        \* userId -> recent audio levels
    currentChannelId,
    timers,             \* pending setTimeout callbacks
    nextCleanup,        \* next firing of setInterval(cleanupExpiredMutes, 5000)
    autoMuted,          \* history: userId -> unmute time of the user's last
                        \* auto-mute, Undefined when never auto-muted
    staleFired          \* history: the timer of a mute that had been cleared
                        \* has fired while its user was muted again

muterVars == <<asettings, relationship, volume, hostMode, subscribed, processedUsers,
               mutedUsers, audioLevels, currentChannelId, timers, nextCleanup, autoMuted,
              staleFired>>

vars == <<now, msgVars, voiceVars, muterVars>>

(***************************************************************************)
(* VoiceChannelLogger: constants, settings and the state after a reset    *)
(***************************************************************************)
TOAST_SUPPRESSION_DURATION == 2000
INITIALIZATION_SUPPRESSION_DURATION == 5000

NoChannel == "none"      \* channelId undefined / null: not in a voice channel
VoiceChannels == {"A", "B"}
VUsers == {"me", "u1"}

VDefaults ==
    [enableFileLogging |-> TRUE, trackSessionDuration |-> TRUE, maxLogEntries |-> 2,
     logOwnActions |-> FALSE, onlyLogJoins |-> FALSE, userFilter |-> {},
     showToastNotifications |-> TRUE, suppressToastsForExistingUsers |-> TRUE]

\* The settings a run is made with.  userFilter is the set of the listed
\* user ids, {} for the empty string; maxLogEntries keeps 0 for "unlimited"
\* and is scaled to 1 and 2 for a limit (2 for the default of 1000)
VSettingsChoices ==
    {VDefaults,
     [VDefaults EXCEPT !.maxLogEntries = 1, !.logOwnActions = TRUE],
     [VDefaults EXCEPT !.maxLogEntries = 0, !.suppressToastsForExistingUsers = FALSE,
                       !.onlyLogJoins = TRUE],
     [VDefaults EXCEPT !.userFilter = {"u1"}, !.logOwnActions = TRUE,
                       !.trackSessionDuration = FALSE, !.enableFileLogging = FALSE,
                       !.showToastNotifications = FALSE]}

NoSessions == [u \in VUsers |-> Undefined]
NoOpenJoins == [u \in VUsers |-> [at |-> Undefined, channel |-> NoChannel]]
NoStartup == [at |-> Undefined, present |-> {}, joined |-> {}, skipped |-> {}]

\* The state after resetPluginState(), with an empty log
VoiceIdle ==
    /\ vsettings = VDefaults
    /\ voiceChannel = [u \in VUsers |-> NoChannel]
    /\ lastUserChannelId = NoChannel
    /\ suppressToastsUntil = 0
    /\ pluginInitialized = FALSE
    /\ initializationSuppressUntil = 0
    /\ initializationStartTime = 0
    /\ processedUsersDuringInit = {}
    /\ userSessions = NoSessions
    /\ voiceLogs = <<>>
    /\ openJoin = NoOpenJoins
    /\ recentSwitch = Undefined
    /\ startup = NoStartup

(***************************************************************************)
(* AutoMuter: constants, settings and the state after the module is loaded *)
(***************************************************************************)
CLEANUP_INTERVAL == 5000         \* setInterval(cleanupExpiredMutes, 5000)
PROCESS_USER_DELAY == 100        \* setTimeout(() => processUser(...), 100)
SWITCH_DELAY == 500              \* setTimeout(() => processExistingUsers(), 500)
RELOAD_DELAY == 1000             \* setTimeout(() => processExistingUsers(), 1000)
VOLUME_TOLERANCE == 2            \* Math.abs(currentPercent - volume) <= 2
MAX_SAMPLES == 3                 \* "Keep only last 10 samples", scaled to 3
MIN_SAMPLES == 2                 \* levels.length >= 5, scaled to 2
FRIEND == 1                      \* relationship type 1 = friend

MUsers == VUsers
RelationshipTypes == {0, 1, 2}   \* none, friend, blocked
HostModes == {"applies", "ignores", "throws"}
Loud == 100                      \* the audio level of the samples, in percent

ADefaults ==
    [enablePlugin |-> TRUE, friendVolume |-> 75, nonFriendVolume |-> 50,
     enableNoiseDetection |-> TRUE, noiseThreshold |-> 80, muteDuration |-> 5]

\* The settings and the host a run is made with
MuterRuns ==
    {[settings |-> ADefaults, host |-> "applies"],
     [settings |-> ADefaults, host |-> "ignores"],
     [settings |-> [ADefaults EXCEPT !.friendVolume = 51, !.noiseThreshold = 100],
      host |-> "throws"],
     [settings |-> [ADefaults EXCEPT !.enablePlugin = FALSE], host |-> "applies"],
     [settings |-> [ADefaults EXCEPT !.enableNoiseDetection = FALSE, !.nonFriendVolume = 99],
      host |-> "ignores"]}

NoMutes == [u \in MUsers |-> Undefined]
NoLevels == [u \in MUsers |-> <<>>]

\* The state after the module is loaded, before start()
MuterLoaded ==
    /\ subscribed = FALSE
    /\ processedUsers = {}
    /\ mutedUsers = NoMutes
    /\ audioLevels = NoLevels
    /\ currentChannelId = NoChannel
    /\ timers = {}
    /\ nextCleanup = CLEANUP_INTERVAL
    /\ autoMuted = NoMutes
    /\ staleFired = FALSE

MuterIdle ==
    /\ asettings = ADefaults
    /\ relationship = [u \in MUsers |-> 0]
    /\ volume = [u \in MUsers |-> 100]
    /\ hostMode = "applies"
    /\ MuterLoaded

(***************************************************************************)
(* MessageStorage (storage.ts)                                             *)
(***************************************************************************)
maxMessagesPerUser == 2

EmptyMap == [u \in {} |-> <<>>]

\* No cleanDMMessages call is under way
CleanIdle == [pc |-> "idle", target |-> "", toDelete |-> <<>>, existing |-> {}]

\* Put key k with value v into the Map m (Map.set)
MapSet(m, k, v) == [x \in (DOMAIN m) \cup {k} |-> IF x = k THEN v ELSE m[x]]

\* Map.delete
MapDelete(m, k) == [x \in (DOMAIN m) \ {k} |-> m[x]]

\* Array.prototype.findIndex(m => m.id === id): 1-based, 0 when absent
RECURSIVE findIndexFrom(_, _, _)
findIndexFrom(msgs, id, i) ==
    IF i > Len(msgs) THEN 0
    ELSE IF msgs[i].id = id THEN i
    ELSE findIndexFrom(msgs, id, i + 1)

findIndex(msgs, id) == findIndexFrom(msgs, id, 1)

\* "Limit messages per user": slice(0, maxMessagesPerUser) when too long
limitMessages(msgs) ==
    IF Len(msgs) > maxMessagesPerUser
    THEN SubSeq(msgs, 1, maxMessagesPerUser)
    ELSE msgs

\* Variant of addMessage: the message is always put in front
addMessageUnshift(store, userId, message, t) ==
    LET userLog == IF userId \in DOMAIN store
                   THEN store[userId]
                   ELSE [messages |-> <<>>, lastUpdated |-> t]
    IN  MapSet(store, userId,
               [messages |-> limitMessages(<<message>> \o userLog.messages),
                lastUpdated |-> t])

\* addMessage(userId, message), without the save: the new storage map
addMessage(store, userId, message, t) ==
    LET userLog == IF userId \in DOMAIN store
                   THEN store[userId]
                   ELSE [messages |-> <<>>, lastUpdated |-> t]
        existingIndex == findIndex(userLog.messages, message.id)
        replaced == IF existingIndex # 0
                    THEN [userLog.messages EXCEPT ![existingIndex] = message]
                    ELSE <<message>> \o userLog.messages
    IN  MapSet(store, userId,
               [messages |-> limitMessages(replaced), lastUpdated |-> t])

\* getMessages(userId)
getMessages(store, userId) ==
    IF userId \in DOMAIN store THEN store[userId].messages ELSE <<>>

\* cleanDMMessages(targetUserId, currentUserId), without the save
cleanDMMessagesStore(store, targetUserId, currentUserId, t) ==
    IF targetUserId \in DOMAIN store
    THEN LET keep(m) == ~(m.author = currentUserId /\ m.guild_id = NoGuild)
         IN  MapSet(store, targetUserId,
                    [messages |-> SelectSeq(store[targetUserId].messages, keep),
                     lastUpdated |-> t])
    ELSE store

\* JSON.stringify(Array.from(this.storage.entries())): the entries as a set
\* of <<key, value>> pairs; a JSON document is [valid, iterable, entries]
stringify(store) ==
    [valid |-> TRUE, iterable |-> TRUE, present |-> TRUE,
     entries |-> {<<k, store[k]>> : k \in DOMAIN store}]

\* new Map(JSON.parse(data)) for a document that parses to a list of entries
parseMap(doc) ==
    [k \in {e[1] : e \in doc.entries} |->
        (CHOOSE e \in doc.entries : e[1] = k)[2]]

AbsentDoc == [valid |-> TRUE, iterable |-> TRUE, present |-> FALSE, entries |-> {}]
MalformedDoc == [valid |-> FALSE, iterable |-> FALSE, present |-> TRUE, entries |-> {}]
NotIterableDoc == [valid |-> TRUE, iterable |-> FALSE, present |-> TRUE, entries |-> {}]

\* saveToLocalStorage(): setItem throwing (quota) is caught and leaves the
\* stored document as it was
saveToLocalStorage(store) ==
    IF quotaExceeded THEN localStorage ELSE stringify(store)

\* The exception the try block of loadFromLocalStorage ends with for a
\* document: JSON.parse throws a SyntaxError, new Map a TypeError
loadRaises(doc) ==
    IF ~doc.present THEN "none"
    ELSE IF ~doc.valid THEN "SyntaxError"
    ELSE IF ~doc.iterable THEN "TypeError"
    ELSE "none"

\* Variant of loadCatches: only the failure of JSON.parse is handled
loadCatchesSyntaxError(exception) ==
    exception = "SyntaxError"

\* catch (error) of loadFromLocalStorage: it handles every exception
loadCatches(exception) ==
    exception \in {"SyntaxError", "TypeError"}

\* loadFromLocalStorage(): the storage map after construction
loadFromLocalStorage(doc, old) ==
    IF ~doc.present THEN old
    ELSE IF doc.valid /\ doc.iterable THEN parseMap(doc)
    ELSE EmptyMap

(***************************************************************************)
(* Inputs of the MessageStorage API                                        *)
(***************************************************************************)
\* A LoggedMessage; the fields that are copied and never read by a decision
\* (timestamp, edited_timestamp, username, globalName, avatar) are left out
LoggedMessage(id, author, guild, isDeleted, t) ==
    [id |-> id, content |-> "text", author |-> author,
     attachments |-> <<>>, embeds |-> <<>>, sticker_items |-> <<>>,
     channel_id |-> "dm", guild_id |-> guild, deleted |-> isDeleted,
     deleted_timestamp |-> IF isDeleted THEN t ELSE Undefined]

\* The <<author, guild_id>> of the messages handed to addMessage
StorageMsgKinds == {<<"me", NoGuild>>, <<"me", "G">>, <<"u1", NoGuild>>}

\* A list of n messages of user u with ids n, n-1, .. 1
RECURSIVE messageList(_, _)
messageList(u, n) ==
    IF n = 0 THEN <<>>
    ELSE <<LoggedMessage(n, u, NoGuild, FALSE, 0)>> \o messageList(u, n - 1)

\* The documents handed to importData: not JSON, JSON that is no list of
\* entries, and exported maps with one user and 0 .. limit+1 messages
ImportDocs ==
    {MalformedDoc, NotIterableDoc} \cup
    {stringify(MapSet(EmptyMap, "u1",
                      [messages |-> messageList("u1", n), lastUpdated |-> 0])) :
        n \in 0 .. maxMessagesPerUser + 1}

MDefaults ==
    [maxMessages |-> maxMessagesPerUser, logImages |-> TRUE, logStickers |-> TRUE,
     logGifs |-> TRUE, logEmbeds |-> TRUE, logSelfMessages |-> FALSE]

(***************************************************************************)
(* Specification SpecStorage: the MessageStorage class under its API       *)
(***************************************************************************)
InitStorage ==
    /\ now = TickStep
    /\ localStorage \in {AbsentDoc, MalformedDoc, NotIterableDoc}
    /\ quotaExceeded \in BOOLEAN
    /\ storage = loadFromLocalStorage(localStorage, EmptyMap)
    /\ msettings = MDefaults
    /\ cache = EmptyMap
    /\ nextId = 1
    /\ clean = CleanIdle
    /\ currentGuild = NoGuild
    /\ VoiceIdle
    /\ MuterIdle

hostVars == <<quotaExceeded, msettings, cache, nextId, currentGuild>>

\* new MessageStorage(): a reload of the page.  The constructor completes
\* when loadFromLocalStorage raises nothing or catches what is raised
Constructor ==
    /\ loadRaises(localStorage) = "none" \/ loadCatches(loadRaises(localStorage))
    /\ storage' = loadFromLocalStorage(localStorage, EmptyMap)
    /\ UNCHANGED <<now, localStorage, hostVars, voiceVars, muterVars, clean>>

AddMessage ==
    \E userId \in MsgUsers \ MsgBots, id \in 1 .. MaxMsgId, kind \in StorageMsgKinds :
        /\ storage' = addMessage(storage, userId,
                                 LoggedMessage(id, kind[1], kind[2], FALSE, now), now)
        /\ localStorage' = saveToLocalStorage(storage')
        /\ UNCHANGED <<now, hostVars, voiceVars, muterVars, clean>>

ClearMessages ==
    \E userId \in MsgUsers :
        /\ storage' = MapDelete(storage, userId)
        /\ localStorage' = saveToLocalStorage(storage')
        /\ UNCHANGED <<now, hostVars, voiceVars, muterVars, clean>>

ClearAllMessages ==
    /\ storage' = EmptyMap
    /\ localStorage' = saveToLocalStorage(storage')
    /\ UNCHANGED <<now, hostVars, voiceVars, muterVars, clean>>

CleanDMMessages ==
    \E targetUserId \in MsgUsers, currentUserId \in MsgUsers \ MsgBots :
        /\ storage' = cleanDMMessagesStore(storage, targetUserId, currentUserId, now)
        /\ localStorage' = saveToLocalStorage(storage')
        /\ UNCHANGED <<now, hostVars, voiceVars, muterVars, clean>>

\* importData(jsonData): JSON.parse or new Map throwing leaves the storage
ImportData ==
    \E doc \in ImportDocs :
        /\ IF doc.valid /\ doc.iterable
           THEN /\ storage' = parseMap(doc)
                /\ localStorage' = saveToLocalStorage(storage')
           ELSE UNCHANGED <<storage, localStorage>>
        /\ UNCHANGED <<now, hostVars, voiceVars, muterVars, clean>>

NextStorage ==
    \/ Constructor
    \/ AddMessage
    \/ ClearMessages
    \/ ClearAllMessages
    \/ CleanDMMessages
    \/ ImportData

SpecStorage == InitStorage /\ [][NextStorage]_vars

\* Specification SpecStorageOps: a store that starts empty, under addMessage,
\* clearMessages, clearAllMessages and cleanDMMessages
InitStorageOps ==
    /\ now = TickStep
    /\ localStorage = AbsentDoc
    /\ quotaExceeded \in BOOLEAN
    /\ storage = EmptyMap
    /\ msettings = MDefaults
    /\ cache = EmptyMap
    /\ nextId = 1
    /\ clean = CleanIdle
    /\ currentGuild = NoGuild
    /\ VoiceIdle
    /\ MuterIdle

NextStorageOps ==
    \/ AddMessage
    \/ ClearMessages
    \/ ClearAllMessages
    \/ CleanDMMessages

SpecStorageOps == InitStorageOps /\ [][NextStorageOps]_vars

\* C1: every user's message list holds at most maxMessagesPerUser messages
C1_ListsBounded ==
    \A u \in DOMAIN storage : Len(storage[u].messages) <= maxMessagesPerUser

(***************************************************************************)
(* MessageLoggerv2 plugin (part_000, second module)                        *)
(***************************************************************************)
\* What a message carries: content, attachments (their content_type),
\* embeds (whether they have an image or thumbnail) and stickers
TextShape ==
    [content |-> "text", attachments |-> <<>>, embeds |-> <<>>, sticker_items |-> <<>>]

MessageShapes ==
    {TextShape,
     [content |-> "text", attachments |-> <<"image/png">>, embeds |-> <<>>, sticker_items |-> <<>>],
     [content |-> "", attachments |-> <<"image/gif">>, embeds |-> <<>>, sticker_items |-> <<>>],
     [content |-> "", attachments |-> <<>>, embeds |-> <<>>, sticker_items |-> <<"sticker">>],
     [content |-> "", attachments |-> <<>>, embeds |-> <<[image |-> FALSE]>>, sticker_items |-> <<>>],
     [content |-> "", attachments |-> <<>>, embeds |-> <<>>, sticker_items |-> <<>>]}

\* The settings a run is made with (they are not changed during a run)
MSettingsChoices ==
    {MDefaults,
     [MDefaults EXCEPT !.maxMessages = 1, !.logSelfMessages = TRUE],
     [MDefaults EXCEPT !.maxMessages = 3, !.logImages = FALSE, !.logStickers = FALSE,
                       !.logGifs = FALSE, !.logEmbeds = FALSE],
     [MDefaults EXCEPT !.logImages = FALSE, !.logGifs = FALSE, !.logSelfMessages = TRUE]}

\* A message of the host's MessageStore
Message(id, author, channel, shape) ==
    [id |-> id, content |-> shape.content, author |-> author,
     attachments |-> shape.attachments, embeds |-> shape.embeds,
     sticker_items |-> shape.sticker_items, channel_id |-> channel,
     deleted |-> FALSE]

\* message.attachments?.some(a => a.content_type?.startsWith('image/gif'))
someGif(attachments) ==
    \E i \in 1 .. Len(attachments) : attachments[i] = "image/gif"

\* message.embeds?.some(e => e.image || e.thumbnail)
someImage(embeds) ==
    \E i \in 1 .. Len(embeds) : embeds[i].image

\* Variant of shouldLog: a deleted message is logged only for what it carries
shouldLogByContent(message, isDeleted) ==
    \/ message.content # ""
    \/ msettings.logImages /\ (Len(message.attachments) > 0 \/ someImage(message.embeds))
    \/ msettings.logStickers /\ Len(message.sticker_items) > 0
    \/ msettings.logGifs /\ someGif(message.attachments)
    \/ msettings.logEmbeds /\ Len(message.embeds) > 0

\* logMessage: the checks before and including shouldLog
shouldLog(message, isDeleted) ==
    \/ message.content # ""
    \/ msettings.logImages /\ (Len(message.attachments) > 0 \/ someImage(message.embeds))
    \/ msettings.logStickers /\ Len(message.sticker_items) > 0
    \/ msettings.logGifs /\ someGif(message.attachments)
    \/ msettings.logEmbeds /\ Len(message.embeds) > 0
    \/ isDeleted

\* Variant of passesAuthorChecks: a deleted message of the current user passes
passesAuthorChecksNoSelf(message) ==
    message.author \notin MsgBots

passesAuthorChecks(message) ==
    /\ message.author \notin MsgBots
    /\ ~(~msettings.logSelfMessages /\ message.author = Me)

logs(message, isDeleted) ==
    passesAuthorChecks(message) /\ shouldLog(message, isDeleted)

\* The entry logMessage hands to addMessage
loggedEntry(message, isDeleted) ==
    [id |-> message.id, content |-> message.content, author |-> message.author,
     attachments |-> message.attachments, embeds |-> message.embeds,
     sticker_items |-> message.sticker_items, channel_id |-> message.channel_id,
     guild_id |-> currentGuild, deleted |-> isDeleted,
     deleted_timestamp |-> IF isDeleted THEN now ELSE Undefined]

\* logMessage(message, isDeleted): the storage map afterwards
logMessage(store, message, isDeleted) ==
    IF logs(message, isDeleted)
    THEN addMessage(store, message.author, loggedEntry(message, isDeleted), now)
    ELSE store

\* handleDelete, the logging half: logMessage(message, true) for every id that
\* MessageStore.getMessage finds and whose author is no bot
RECURSIVE handleDeleteLog(_, _)
handleDeleteLog(store, ids) ==
    IF ids = <<>> THEN store
    ELSE LET id == Head(ids)
             next == IF id \in DOMAIN cache /\ cache[id].author \notin MsgBots
                     THEN logMessage(store, cache[id], TRUE)
                     ELSE store
         IN  handleDeleteLog(next, Tail(ids))

\* Variant of handleDeleteCache: the host's own handler, which removes the
\* deleted messages from the channel cache
handleDeleteCacheRemoving(c, ids) ==
    [id \in {x \in DOMAIN c : ~\E i \in 1 .. Len(ids) : ids[i] = x} |-> c[id]]

\* handleDelete, the cache half: cache.update(id, m => m.set('deleted', true))
handleDeleteCache(c, ids) ==
    [id \in DOMAIN c |->
        IF (\E i \in 1 .. Len(ids) : ids[i] = id) /\ c[id].author \notin MsgBots
        THEN [c[id] EXCEPT !.deleted = TRUE]
        ELSE c[id]]

\* some id of the list made logMessage call addMessage (and so save)
deleteSaves(ids) ==
    \E i \in 1 .. Len(ids) :
        ids[i] \in DOMAIN cache /\ logs(cache[ids[i]], TRUE)

handleDelete(ids) ==
    /\ cache' = handleDeleteCache(cache, ids)
    /\ storage' = handleDeleteLog(storage, ids)
    /\ localStorage' = IF deleteSaves(ids)
                       THEN saveToLocalStorage(storage') ELSE localStorage
    /\ UNCHANGED <<now, quotaExceeded, msettings, nextId, currentGuild, voiceVars, muterVars, clean>>

InitLogger ==
    /\ now = TickStep
    /\ localStorage = AbsentDoc
    /\ quotaExceeded = FALSE
    /\ storage = loadFromLocalStorage(localStorage, EmptyMap)
    /\ msettings \in MSettingsChoices
    /\ cache = EmptyMap
    /\ nextId = 1
    /\ clean = CleanIdle
    /\ currentGuild \in Guilds
    /\ VoiceIdle
    /\ MuterIdle

\* MESSAGE_CREATE: onMessage(data) runs, then the host stores the message
MESSAGE_CREATE ==
    \E author \in MsgUsers, channel \in Channels, shape \in MessageShapes :
        LET message == Message(nextId, author, channel, shape) IN
        /\ nextId <= MaxHostMsgs
        /\ author \in MsgBots => shape = TextShape
        /\ storage' = logMessage(storage, message, FALSE)
        /\ localStorage' = IF logs(message, FALSE)
                           THEN saveToLocalStorage(storage') ELSE localStorage
        /\ cache' = MapSet(cache, nextId, message)
        /\ nextId' = nextId + 1
        /\ UNCHANGED <<now, quotaExceeded, msettings, currentGuild, voiceVars, muterVars, clean>>

\* MESSAGE_UPDATE: onMessageUpdate(data) logs the message of the payload only
\* when it has an edited_timestamp.  The payload is the stored message (an
\* edit changes the text, not whether there is one)
MESSAGE_UPDATE ==
    \E id \in DOMAIN cache, edited \in BOOLEAN :
        LET message == cache[id] IN
        /\ ~message.deleted
        /\ storage' = IF edited THEN logMessage(storage, message, FALSE) ELSE storage
        /\ localStorage' = IF edited /\ logs(message, FALSE)
                           THEN saveToLocalStorage(storage') ELSE localStorage
        /\ UNCHANGED <<now, quotaExceeded, msettings, cache, nextId, currentGuild, voiceVars, muterVars, clean>>

\* MESSAGE_DELETE for a message id; id 0 is a message the MessageStore
\* does not hold
MESSAGE_DELETE ==
    \E id \in 0 .. nextId - 1 : handleDelete(<<id>>)

MESSAGE_DELETE_BULK ==
    \E id1 \in 0 .. nextId - 1, id2 \in 0 .. nextId - 1 :
        id1 # id2 /\ handleDelete(<<id1, id2>>)

\* LoggerModal.handleClearMessages for the user of the context menu
HandleClearMessages ==
    \E user \in MsgUsers \ MsgBots :
        /\ user \in DOMAIN storage
        /\ storage' = MapDelete(storage, user)
        /\ localStorage' = saveToLocalStorage(storage')
        /\ UNCHANGED <<now, quotaExceeded, msettings, cache, nextId, currentGuild, voiceVars, muterVars, clean>>

NextLogger ==
    \/ MESSAGE_CREATE
    \/ MESSAGE_UPDATE
    \/ MESSAGE_DELETE
    \/ MESSAGE_DELETE_BULK
    \/ HandleClearMessages

SpecLogger == InitLogger /\ [][NextLogger]_vars

(***************************************************************************)
(* Specification SpecCleanDM: the plugin with its "Clean DM" command       *)
(***************************************************************************)
\* ChannelStore.getSortedPrivateChannels().find(channel => channel.isDM() &&
\* channel.recipients.includes(targetUserId)): channel "dm" is the DM with u1
dmChannelOf(targetUserId) ==
    {channel \in Channels : channel = "dm" /\ targetUserId = "u1"}

\* messageCache.forEach: the ids from..nextId-1 of the current user's messages
\* in the channels, in the order of the cache
RECURSIVE messagesToDelete(_, _)
messagesToDelete(channels, from) ==
    IF from >= nextId THEN <<>>
    ELSE IF from \in DOMAIN cache /\ cache[from].channel_id \in channels
                                  /\ cache[from].author = Me
         THEN <<from>> \o messagesToDelete(channels, from + 1)
         ELSE messagesToDelete(channels, from + 1)

\* LoggerModal.handleCleanDM: plugin.cleanDMMessages(targetUserId) up to its
\* first await of deleteMessage; without a message to delete it
\* returns true at once
HandleCleanDM(targetUserId) ==
    /\ clean.pc = "idle"
    /\ storage' = cleanDMMessagesStore(storage, targetUserId, Me, now)
    /\ localStorage' = saveToLocalStorage(storage')
    /\ \E ids \in {messagesToDelete(dmChannelOf(targetUserId), 1)} :
           clean' = IF ids = <<>> THEN CleanIdle
                    ELSE [pc |-> "deleting", target |-> targetUserId,
                          toDelete |-> ids, existing |-> DOMAIN cache]
    /\ UNCHANGED <<now, hostVars, voiceVars, muterVars>>

\* One round of the loop: await MessageActions.deleteMessage(dmChannel.id,
\* messageId), whether the request succeeds or fails, and the 100 ms pause.
\* The MESSAGE_DELETE the server sends for it is handled as any other
CleanDMDeleteMessage ==
    /\ clean.pc = "deleting"
    /\ clean.toDelete # <<>>
    /\ clean' = [clean EXCEPT !.toDelete = Tail(clean.toDelete)]
    /\ UNCHANGED <<now, storage, localStorage, hostVars, voiceVars, muterVars>>

\* The loop is over: cleanDMMessages returns true
CleanDMReturns ==
    /\ clean.pc = "deleting"
    /\ clean.toDelete = <<>>
    /\ clean' = CleanIdle
    /\ UNCHANGED <<now, storage, localStorage, hostVars, voiceVars, muterVars>>

NextCleanDM ==
    \/ NextLogger
    \/ \E targetUserId \in MsgUsers \ MsgBots : HandleCleanDM(targetUserId)
    \/ CleanDMDeleteMessage
    \/ CleanDMReturns

SpecCleanDM == InitLogger /\ [][NextCleanDM]_vars

(***************************************************************************)
(* VoiceChannelLogger plugin (part_002, second module)                     *)
(***************************************************************************)
\* Variant: the truncation starts one entry late
saveLogEntryUpdateLate(logsBefore, entry) ==
    LET unshifted == <<entry>> \o logsBefore
        maxEntries == vsettings.maxLogEntries
    IN  IF maxEntries > 0 /\ Len(unshifted) > maxEntries + 1
        THEN SubSeq(unshifted, 1, maxEntries)
        ELSE unshifted

\* saveLogEntry's update callback: unshift, then truncate to maxLogEntries
saveLogEntryUpdate(logsBefore, entry) ==
    LET unshifted == <<entry>> \o logsBefore
        maxEntries == vsettings.maxLogEntries
    IN  IF maxEntries > 0 /\ Len(unshifted) > maxEntries
        THEN SubSeq(unshifted, 1, maxEntries)
        ELSE unshifted

\* saveLogEntry(entry)
saveLogEntry(logsBefore, entry) ==
    IF ~vsettings.enableFileLogging THEN logsBefore
    ELSE saveLogEntryUpdate(logsBefore, entry)

\* A voice state of a VOICE_STATE_UPDATES payload
VoiceState(userId, channelId, oldChannelId) ==
    [userId |-> userId, channelId |-> channelId, oldChannelId |-> oldChannelId]

\* voiceStates.find(state => state.userId === currentUser.id): index or 0
RECURSIVE findMyState(_, _)
findMyState(voiceStates, i) ==
    IF i > Len(voiceStates) THEN 0
    ELSE IF voiceStates[i].userId = Me THEN i
    ELSE findMyState(voiceStates, i + 1)

\* "Handle plugin initialization and Discord restarts" (first block of the
\* handler): the plugin state after it
afterInitialization(myChannelId, channels) ==
    IF ~pluginInitialized /\ myChannelId # NoChannel
    THEN [pluginInitialized |-> TRUE,
          lastUserChannelId |-> myChannelId,
          initializationStartTime |-> now,
          initializationSuppressUntil |->
              IF vsettings.suppressToastsForExistingUsers
              THEN now + INITIALIZATION_SUPPRESSION_DURATION
              ELSE initializationSuppressUntil,
          processedUsersDuringInit |->
              IF vsettings.suppressToastsForExistingUsers
              THEN {u \in VUsers \ {Me} : channels[u] = myChannelId}
              ELSE {},
          suppressToastsUntil |-> suppressToastsUntil]
    ELSE [pluginInitialized |-> pluginInitialized,
          lastUserChannelId |-> lastUserChannelId,
          initializationStartTime |-> initializationStartTime,
          initializationSuppressUntil |-> initializationSuppressUntil,
          processedUsersDuringInit |-> processedUsersDuringInit,
          suppressToastsUntil |-> suppressToastsUntil]

\* Variant: a channel switch opens no suppression window
afterChannelSwitchNoWindow(p, voiceStates) ==
    LET k == findMyState(voiceStates, 1) IN
    IF k = 0 THEN p
    ELSE [p EXCEPT
             !.lastUserChannelId = voiceStates[k].channelId,
             !.pluginInitialized = TRUE,
             !.initializationStartTime = IF p.pluginInitialized THEN @ ELSE now,
             !.processedUsersDuringInit = IF p.pluginInitialized THEN @ ELSE {}]

\* "Handle user channel switching with smart suppression" (second block)
afterChannelSwitch(p, voiceStates) ==
    LET k == findMyState(voiceStates, 1) IN
    IF k = 0 THEN p
    ELSE LET myState == voiceStates[k] IN
         IF vsettings.suppressToastsForExistingUsers
         THEN LET userJoinedNewChannel ==
                      myState.channelId # NoChannel /\ myState.channelId # p.lastUserChannelId
              IN  [p EXCEPT
                      !.suppressToastsUntil =
                          IF userJoinedNewChannel /\ p.pluginInitialized
                          THEN now + TOAST_SUPPRESSION_DURATION ELSE @,
                      !.lastUserChannelId = myState.channelId]
         ELSE [p EXCEPT
                  !.lastUserChannelId = myState.channelId,
                  !.pluginInitialized = TRUE,
                  !.initializationStartTime = IF p.pluginInitialized THEN @ ELSE now,
                  !.processedUsersDuringInit = IF p.pluginInitialized THEN @ ELSE {}]

\* Variant: the set is cleared on every run
afterCleanupAlways(p) ==
    [p EXCEPT !.processedUsersDuringInit = {}]

\* "Clean up processed users set after initialization period expires"
afterCleanup(p) ==
    IF now > p.initializationSuppressUntil /\ p.processedUsersDuringInit # {}
    THEN [p EXCEPT !.processedUsersDuringInit = {}]
    ELSE p

\* Variant: a move within or around the channel counts as a join
actionOfJoinFirst(state, myChannelId) ==
    LET joiningMyChannel == state.channelId = myChannelId
        leavingMyChannel == state.oldChannelId = myChannelId
    IN  IF joiningMyChannel THEN "join"
        ELSE IF leavingMyChannel THEN "leave"
        ELSE "null"

\* "Determine the specific action type" for one voice state
actionOf(state, myChannelId) ==
    LET joiningMyChannel == state.channelId = myChannelId
        leavingMyChannel == state.oldChannelId = myChannelId
    IN  IF joiningMyChannel /\ ~leavingMyChannel THEN "join"
        ELSE IF leavingMyChannel /\ ~joiningMyChannel THEN "leave"
        ELSE "null"

\* The filters on a voice state before the initialization suppression
passesFilters(state, myChannelId) ==
    /\ ~(state.userId = Me /\ ~vsettings.logOwnActions)
    /\ (vsettings.userFilter # {} => state.userId \in vsettings.userFilter)
    /\ actionOf(state, myChannelId) # "null"
    /\ ~(vsettings.onlyLogJoins /\ actionOf(state, myChannelId) = "leave")

\* One pass of the loop body for voiceStates[i].  The accumulator l holds
\* processedUsersDuringInit, userSessions, the log, and the calls of
\* logVoiceEvent (entry, suppressToast) made so far.  Of a LogEntry the
\* fields userId, channelId, action and sessionDuration are kept; the
\* timestamp and the display fields (names, avatar) are read by no decision
loopBody(l, state, myChannelId, p) ==
    LET action == actionOf(state, myChannelId)
        userId == state.userId
        isInInitializationSuppression == now < p.initializationSuppressUntil
        skippedByInit == isInInitializationSuppression /\ action = "join"
                         /\ userId \in l.processed
        processed1 == IF isInInitializationSuppression /\ action = "join"
                      THEN l.processed \cup {userId} ELSE l.processed
        relevantChannelId == IF state.channelId # NoChannel
                             THEN state.channelId ELSE state.oldChannelId
        track == vsettings.trackSessionDuration
        joinTime == l.sessions[userId]
        hasJoinTime == joinTime # Undefined /\ joinTime # 0
        sessionDuration == IF track /\ action = "leave" /\ hasJoinTime
                           THEN now - joinTime ELSE Undefined
        sessions1 == IF track /\ action = "join"
                     THEN [l.sessions EXCEPT ![userId] = now]
                     ELSE IF track /\ action = "leave" /\ hasJoinTime
                     THEN [l.sessions EXCEPT ![userId] = Undefined]
                     ELSE l.sessions
        logEntry == [userId |-> userId, channelId |-> relevantChannelId,
                     action |-> action, sessionDuration |-> sessionDuration]
        isInNormalSuppression == now < p.suppressToastsUntil
        shouldSuppressToast == /\ vsettings.suppressToastsForExistingUsers
                               /\ (isInNormalSuppression \/ isInInitializationSuppression)
                               /\ action = "join"
    IN  IF ~passesFilters(state, myChannelId) \/ skippedByInit THEN l
        ELSE [processed |-> processed1, sessions |-> sessions1,
              logs |-> saveLogEntry(l.logs, logEntry),
              calls |-> Append(l.calls, [entry |-> logEntry,
                                         suppressToast |-> shouldSuppressToast])]

RECURSIVE loop(_, _, _, _, _)
loop(l, voiceStates, i, myChannelId, p) ==
    IF i > Len(voiceStates) THEN l
    ELSE loop(loopBody(l, voiceStates[i], myChannelId, p), voiceStates, i + 1,
              myChannelId, p)

\* The whole handler on the payload voiceStates, the host's stores already
\* holding the channels of the payload: the plugin state p and the loop
\* result l.  DataStore.update runs the updates of one key one after the
\* other in the order of the calls, so every save is taken at its call
handler(voiceStates, channels) ==
    LET myChannelId == channels[Me]
        p1 == afterChannelSwitch(afterInitialization(myChannelId, channels), voiceStates)
        p2 == IF myChannelId = NoChannel THEN p1 ELSE afterCleanup(p1)
        l0 == [processed |-> p2.processedUsersDuringInit, sessions |-> userSessions,
               logs |-> voiceLogs, calls |-> <<>>]
        l1 == IF myChannelId = NoChannel THEN l0
              ELSE loop(l0, voiceStates, 1, myChannelId, p2)
    IN  [p |-> p2, l |-> l1]

\* showToastNotification is called for a call of logVoiceEvent
showsToast(call) ==
    vsettings.showToastNotifications /\ ~call.suppressToast

\* The host's stores after the payload
channelsAfter(voiceStates) ==
    [u \in VUsers |->
        IF \E i \in 1 .. Len(voiceStates) : voiceStates[i].userId = u
        THEN (CHOOSE st \in {voiceStates[i] : i \in 1 .. Len(voiceStates)} :
                  st.userId = u).channelId
        ELSE voiceChannel[u]]

\* The payloads: one or two users change (or keep, e.g. on a mute toggle)
\* their voice channel
Payloads ==
    LET one(u) == {VoiceState(u, c, voiceChannel[u]) :
                     c \in {x \in VoiceChannels \cup {NoChannel} :
                               x # NoChannel \/ voiceChannel[u] # NoChannel}}
    IN  {<<a>> : a \in UNION {one(u) : u \in VUsers}} \cup
        {<<a, b>> : a \in one("u1"), b \in one(Me)}

\* The calls of logVoiceEvent the handler makes on a payload
callsOf(voiceStates) ==
    handler(voiceStates, channelsAfter(voiceStates)).l.calls

\* History: the logged joins no logged leave has followed, after the calls
RECURSIVE openJoinAfter(_, _, _)
openJoinAfter(open, calls, i) ==
    IF i > Len(calls) THEN open
    ELSE LET e == calls[i].entry
         IN  openJoinAfter(
                 IF e.action = "join"
                 THEN [open EXCEPT ![e.userId] = [at |-> now, channel |-> e.channelId]]
                 ELSE [open EXCEPT ![e.userId] = [at |-> Undefined, channel |-> NoChannel]],
                 calls, i + 1)

\* History: the payload shows the current user in a voice channel other
\* than lastUserChannelId, the plugin being initialized
showsSwitch(voiceStates) ==
    LET k == findMyState(voiceStates, 1)
    IN  /\ pluginInitialized
        /\ k # 0
        /\ voiceStates[k].channelId # NoChannel
        /\ voiceStates[k].channelId # lastUserChannelId

\* History: the payload initializes the plugin
initializes(voiceStates) ==
    ~pluginInitialized /\ channelsAfter(voiceStates)[Me] # NoChannel

joinedUsers(calls) ==
    {calls[i].entry.userId : i \in {j \in 1 .. Len(calls) : calls[j].entry.action = "join"}}

\* History: the users of the payload that enter the current user's channel
joinEvents(voiceStates) ==
    LET channels == channelsAfter(voiceStates)
    IN  {voiceStates[k].userId :
            k \in {j \in 1 .. Len(voiceStates) :
                      /\ channels[Me] # NoChannel
                      /\ voiceStates[j].channelId = channels[Me]
                      /\ voiceStates[j].oldChannelId # channels[Me]}}

startupAfter(voiceStates, calls) ==
    LET channels == channelsAfter(voiceStates)
        s0 == IF initializes(voiceStates)
              THEN [at |-> now,
                    present |-> {u \in VUsers \ {Me} : channels[u] = channels[Me]},
                    joined |-> {}, skipped |-> {}]
              ELSE startup
    IN  IF ~vsettings.suppressToastsForExistingUsers \/ s0.at = Undefined THEN NoStartup
        ELSE [s0 EXCEPT !.joined = @ \cup joinedUsers(calls),
                        !.skipped = @ \cup (joinEvents(voiceStates) \cap s0.present)]

VOICE_STATE_UPDATES(voiceStates) ==
    \E channels \in {channelsAfter(voiceStates)} :
        /\ UNCHANGED <<now, msgVars, muterVars, vsettings>>
        /\ voiceChannel' = channels
        /\ \E r \in {handler(voiceStates, channels)} :
               /\ Len(r.l.logs) <= Max(MaxVoiceLog, Len(voiceLogs))
               /\ lastUserChannelId' = r.p.lastUserChannelId
               /\ suppressToastsUntil' = r.p.suppressToastsUntil
               /\ pluginInitialized' = r.p.pluginInitialized
               /\ initializationSuppressUntil' = r.p.initializationSuppressUntil
               /\ initializationStartTime' = r.p.initializationStartTime
               /\ processedUsersDuringInit' = r.l.processed
               /\ userSessions' = r.l.sessions
               /\ voiceLogs' = r.l.logs
               /\ openJoin' = IF vsettings.trackSessionDuration
                              THEN openJoinAfter(openJoin, r.l.calls, 1) ELSE openJoin
               /\ recentSwitch' = IF vsettings.suppressToastsForExistingUsers
                                     /\ showsSwitch(voiceStates)
                                  THEN now ELSE recentSwitch
               /\ startup' = startupAfter(voiceStates, r.l.calls)

\* stop() followed by start(): resetPluginState()
ResetPluginState ==
    /\ pluginInitialized' = FALSE
    /\ lastUserChannelId' = NoChannel
    /\ suppressToastsUntil' = 0
    /\ initializationSuppressUntil' = 0
    /\ processedUsersDuringInit' = {}
    /\ initializationStartTime' = 0
    /\ userSessions' = NoSessions
    /\ openJoin' = NoOpenJoins
    /\ recentSwitch' = Undefined
    /\ startup' = NoStartup
    /\ UNCHANGED <<now, msgVars, muterVars, vsettings, voiceChannel, voiceLogs>>

\* clearLogs(): DataStore.set(LOG_KEY, [])
ClearLogs ==
    /\ voiceLogs # <<>>
    /\ voiceLogs' = <<>>
    /\ UNCHANGED <<now, msgVars, muterVars, vsettings, voiceChannel, lastUserChannelId,
                   suppressToastsUntil, pluginInitialized, initializationSuppressUntil,
                   initializationStartTime, processedUsersDuringInit, userSessions,
                   openJoin, recentSwitch, startup>>

\* Date.now() advances; the history of the two windows is dropped when the
\* window is over
TickVoice ==
    /\ now < VoiceMaxNow
    /\ now' = now + TickStep
    /\ recentSwitch' = IF recentSwitch # Undefined
                          /\ now' < recentSwitch + TOAST_SUPPRESSION_DURATION
                       THEN recentSwitch ELSE Undefined
    /\ startup' = IF startup.at # Undefined
                     /\ now' < startup.at + INITIALIZATION_SUPPRESSION_DURATION
                  THEN startup ELSE NoStartup
    /\ UNCHANGED <<msgVars, muterVars, vsettings, voiceChannel, lastUserChannelId,
                   suppressToastsUntil, pluginInitialized, initializationSuppressUntil,
                   initializationStartTime, processedUsersDuringInit, userSessions,
                   voiceLogs, openJoin>>

InitVoice ==
    /\ now = TickStep
    /\ localStorage = AbsentDoc
    /\ quotaExceeded = FALSE
    /\ storage = EmptyMap
    /\ msettings = MDefaults
    /\ cache = EmptyMap
    /\ nextId = 1
    /\ clean = CleanIdle
    /\ currentGuild = NoGuild
    /\ vsettings \in VSettingsChoices
    /\ voiceChannel \in [VUsers -> VoiceChannels \cup {NoChannel}]
    /\ lastUserChannelId = NoChannel
    /\ suppressToastsUntil = 0
    /\ pluginInitialized = FALSE
    /\ initializationSuppressUntil = 0
    /\ initializationStartTime = 0
    /\ processedUsersDuringInit = {}
    /\ userSessions = NoSessions
    /\ voiceLogs = <<>>
    /\ openJoin = NoOpenJoins
    /\ recentSwitch = Undefined
    /\ startup = NoStartup
    /\ MuterIdle

NextVoice ==
    \/ \E voiceStates \in Payloads : VOICE_STATE_UPDATES(voiceStates)
    \/ ResetPluginState
    \/ ClearLogs
    \/ TickVoice

SpecVoice == InitVoice /\ [][NextVoice]_vars

(***************************************************************************)
(* AutoMuter plugin (part_000, first module)                               *)
(***************************************************************************)
Abs(x) == IF x < 0 THEN 0 - x ELSE x

RECURSIVE Sum(_)
Sum(levels) == IF levels = <<>> THEN 0 ELSE Head(levels) + Sum(Tail(levels))

\* The host's setLocalVolume(userId, percent / 100), when it does not throw.
\* The model keeps the volume in percent: Math.round((v / 100) * 100) is v
\* for the whole percentages 0 .. 100 that are set
setLocalVolume(vol, userId, percent) ==
    IF hostMode = "applies" THEN [vol EXCEPT ![userId] = percent] ELSE vol

\* setUserVolume(userId, volume): the host's volumes after it and its result
setUserVolume(vol, userId, target) ==
    IF hostMode = "throws" THEN [ok |-> FALSE, volume |-> vol]
    ELSE LET set == setLocalVolume(vol, userId, target)
             currentPercent == set[userId]
         IN  [ok |-> Abs(currentPercent - target) <= VOLUME_TOLERANCE, volume |-> set]

\* setUserMuted(userId, muted)
setUserMuted(vol, userId, muted) ==
    IF hostMode = "throws" THEN [ok |-> FALSE, volume |-> vol]
    ELSE [ok |-> TRUE, volume |-> setLocalVolume(vol, userId, IF muted THEN 0 ELSE 100)]

\* Variant: every relationship counts as a friend
isFriendAnyRelationship(userId) ==
    relationship[userId] # 0

\* isFriend(userId)
isFriend(userId) ==
    relationship[userId] = FRIEND

\* processUser(userId) on s = [volume, processedUsers]
processUser(s, userId) ==
    IF ~asettings.enablePlugin \/ userId = Me \/ userId \in s.processedUsers THEN s
    ELSE LET targetVolume == IF isFriend(userId) THEN asettings.friendVolume
                             ELSE asettings.nonFriendVolume
             set == setUserVolume(s.volume, userId, targetVolume)
         IN  [volume |-> set.volume,
              processedUsers |-> IF set.ok THEN s.processedUsers \cup {userId}
                                 ELSE s.processedUsers]

\* The clock reading during which an instant falls
readingOf(time) == (time \div TickStep) * TickStep

\* A pending setTimeout callback; it can run from the reading on during
\* which its delay ends
Timer(kind, userId, delay, unmuteTime) ==
    [kind |-> kind, userId |-> userId, due |-> readingOf(now + delay),
     unmuteTime |-> unmuteTime]

\* The voice logger's own state, which AutoMuter does not touch
loggerVars == <<vsettings, lastUserChannelId, suppressToastsUntil, pluginInitialized,
                initializationSuppressUntil, initializationStartTime,
                processedUsersDuringInit, userSessions, voiceLogs,
                openJoin, recentSwitch, startup>>

\* The patch on getAudioLevel: monitorAudioLevel(userId, Loud), for a user
\* the current user hears in the voice channel
MonitorAudio(userId) ==
    LET pushed == Append(audioLevels[userId], Loud)
        levels == IF Len(pushed) > MAX_SAMPLES THEN Tail(pushed) ELSE pushed
        tooLoud == /\ Len(levels) >= MIN_SAMPLES
                   /\ Sum(levels) > asettings.noiseThreshold * Len(levels)
                   /\ mutedUsers[userId] = Undefined
        muted == setUserMuted(volume, userId, TRUE)
        unmuteTime == now + asettings.muteDuration * 1000
    IN  /\ voiceChannel[Me] # NoChannel
        /\ voiceChannel[userId] = voiceChannel[Me]
        /\ asettings.enableNoiseDetection
        /\ userId # Me
        /\ audioLevels' = [audioLevels EXCEPT ![userId] = levels]
        /\ IF tooLoud /\ muted.ok
           THEN /\ volume' = muted.volume
                /\ mutedUsers' = [mutedUsers EXCEPT ![userId] = unmuteTime]
                /\ timers' = timers \cup {Timer("unmute", userId, asettings.muteDuration * 1000, unmuteTime)}
                /\ autoMuted' = [autoMuted EXCEPT ![userId] = unmuteTime]
           ELSE UNCHANGED <<volume, mutedUsers, timers, autoMuted>>
        /\ UNCHANGED <<now, msgVars, loggerVars, voiceChannel, asettings, relationship,
                       hostMode, subscribed, processedUsers, currentChannelId, nextCleanup,
                       staleFired>>

\* The payloads of AutoMuter's specification: one user changes the channel
MuterPayloads ==
    {<<VoiceState(u, c, voiceChannel[u])>> :
        u \in MUsers, c \in VoiceChannels \cup {NoChannel}}

\* The processUser timers handleVoiceStateUpdate sets for update.voiceStates
joinTimers(voiceStates, channelId) ==
    {Timer("processUser", voiceStates[i].userId, PROCESS_USER_DELAY, Undefined) :
        i \in {j \in 1 .. Len(voiceStates) :
                  /\ voiceStates[j].channelId = channelId
                  /\ voiceStates[j].userId # Me}}

\* VOICE_STATE_UPDATES: the host's store takes the payload, then
\* handleVoiceStateUpdate(update) if it is subscribed
MuterVoiceStateUpdates(voiceStates) ==
    \E channels \in {channelsAfter(voiceStates)} :
        /\ channels # voiceChannel
        /\ voiceChannel' = channels
        /\ IF ~subscribed \/ ~asettings.enablePlugin
           THEN UNCHANGED <<processedUsers, mutedUsers, audioLevels, currentChannelId, timers>>
           ELSE IF channels[Me] = NoChannel
           THEN /\ processedUsers' = {}
                /\ mutedUsers' = NoMutes
                /\ audioLevels' = NoLevels
                /\ currentChannelId' = NoChannel
                /\ UNCHANGED timers
           ELSE IF currentChannelId # channels[Me]
           THEN /\ currentChannelId' = channels[Me]
                /\ processedUsers' = {}
                /\ mutedUsers' = NoMutes
                /\ audioLevels' = NoLevels
                /\ timers' = timers
                            \cup {Timer("processExisting", Me, SWITCH_DELAY, Undefined)}
                            \cup joinTimers(voiceStates, channels[Me])
           ELSE /\ timers' = timers \cup joinTimers(voiceStates, currentChannelId)
                /\ UNCHANGED <<processedUsers, mutedUsers, audioLevels, currentChannelId>>
        /\ UNCHANGED <<now, msgVars, loggerVars, asettings, relationship, volume, hostMode,
                       subscribed, nextCleanup, autoMuted, staleFired>>

\* RELATIONSHIP_ADD / _REMOVE / _UPDATE: the host's store takes the new type,
\* then handleRelationshipUpdate() if it is subscribed
RelationshipUpdate ==
    \E userId \in MUsers \ {Me} :
    \E type \in RelationshipTypes \ {relationship[userId]} :
        /\ relationship' = [relationship EXCEPT ![userId] = type]
        /\ IF subscribed /\ asettings.enablePlugin
           THEN /\ processedUsers' = {}
                /\ timers' = timers
                            \cup {Timer("processExisting", Me, RELOAD_DELAY, Undefined)}
           ELSE UNCHANGED <<processedUsers, timers>>
        /\ UNCHANGED <<now, msgVars, loggerVars, voiceChannel, asettings, volume, hostMode,
                       subscribed, mutedUsers, audioLevels, currentChannelId, nextCleanup,
                       autoMuted, staleFired>>

\* Math.random() * 1000, the delay of a staggered processUser
RandomDelays == {0, 500}

\* Variant of UnmuteTimerFires: the timer unmutes whenever its user has an
\* entry in mutedUsers
UnmuteTimerFiresAnyEntry(t) ==
    /\ t.kind = "unmute"
    /\ IF mutedUsers[t.userId] # Undefined
       THEN \E s \in {processUser([volume |-> setUserMuted(volume, t.userId, FALSE).volume,
                                   processedUsers |-> processedUsers], t.userId)} :
               /\ mutedUsers' = [mutedUsers EXCEPT ![t.userId] = Undefined]
               /\ volume' = s.volume
               /\ processedUsers' = s.processedUsers
       ELSE UNCHANGED <<mutedUsers, volume, processedUsers>>
    /\ timers' = timers \ {t}

\* The timer of monitorAudioLevel: unmute if the entry is the timer's own
UnmuteTimerFires(t) ==
    /\ t.kind = "unmute"
    /\ IF mutedUsers[t.userId] # Undefined /\ mutedUsers[t.userId] = t.unmuteTime
       THEN \E s \in {processUser([volume |-> setUserMuted(volume, t.userId, FALSE).volume,
                                   processedUsers |-> processedUsers], t.userId)} :
               /\ mutedUsers' = [mutedUsers EXCEPT ![t.userId] = Undefined]
               /\ volume' = s.volume
               /\ processedUsers' = s.processedUsers
       ELSE UNCHANGED <<mutedUsers, volume, processedUsers>>
    /\ timers' = timers \ {t}

\* A timer of handleVoiceStateUpdate or processExistingUsers: processUser
ProcessUserTimerFires(t) ==
    /\ t.kind = "processUser"
    /\ \E s \in {processUser([volume |-> volume, processedUsers |-> processedUsers],
                             t.userId)} :
           /\ volume' = s.volume
           /\ processedUsers' = s.processedUsers
    /\ timers' = timers \ {t}
    /\ UNCHANGED mutedUsers

\* A timer of start, handleVoiceStateUpdate or handleRelationshipUpdate:
\* processExistingUsers()
ProcessExistingTimerFires(t) ==
    /\ t.kind = "processExisting"
    /\ IF ~asettings.enablePlugin \/ voiceChannel[Me] = NoChannel
       THEN timers' = timers \ {t}
       ELSE \E delay \in [{u \in MUsers \ {Me} : voiceChannel[u] = voiceChannel[Me]}
                              -> RandomDelays] :
               timers' = (timers \ {t}) \cup
                         {Timer("processUser", u, delay[u], Undefined) :
                             u \in DOMAIN delay}
    /\ UNCHANGED <<mutedUsers, volume, processedUsers>>

TimerFires(t) ==
    /\ t \in timers
    /\ now >= t.due
    /\ \/ UnmuteTimerFires(t)
       \/ ProcessUserTimerFires(t)
       \/ ProcessExistingTimerFires(t)
    /\ staleFired' = (staleFired \/ (/\ t.kind = "unmute"
                                      /\ mutedUsers[t.userId] # Undefined
                                      /\ mutedUsers[t.userId] # t.unmuteTime))
    /\ UNCHANGED <<now, msgVars, loggerVars, voiceChannel, asettings, relationship,
                   hostMode, subscribed, audioLevels, currentChannelId, nextCleanup,
                   autoMuted>>

\* The interval: cleanupExpiredMutes()
CleanupExpiredMutes ==
    LET expired == {u \in MUsers : mutedUsers[u] # Undefined /\ now >= mutedUsers[u]}
    IN  /\ now >= nextCleanup
        /\ nextCleanup' = nextCleanup + CLEANUP_INTERVAL
        /\ mutedUsers' = [u \in MUsers |-> IF u \in expired THEN Undefined
                                           ELSE mutedUsers[u]]
        /\ audioLevels' = [u \in MUsers |-> IF u \in expired THEN <<>>
                                            ELSE audioLevels[u]]
        /\ UNCHANGED <<now, msgVars, loggerVars, voiceChannel, asettings, relationship,
                       volume, hostMode, subscribed, processedUsers, currentChannelId,
                       timers, autoMuted, staleFired>>

\* start()
Start ==
    /\ ~subscribed
    /\ subscribed' = TRUE
    /\ timers' = timers \cup {Timer("processExisting", Me, RELOAD_DELAY, Undefined)}
    /\ UNCHANGED <<now, msgVars, loggerVars, voiceChannel, asettings, relationship,
                   volume, hostMode, processedUsers, mutedUsers, audioLevels,
                   currentChannelId, nextCleanup, autoMuted, staleFired>>

\* stop()
Stop ==
    /\ subscribed
    /\ subscribed' = FALSE
    /\ processedUsers' = {}
    /\ mutedUsers' = NoMutes
    /\ audioLevels' = NoLevels
    /\ currentChannelId' = NoChannel
    /\ UNCHANGED <<now, msgVars, loggerVars, voiceChannel, asettings, relationship,
                   volume, hostMode, timers, nextCleanup, autoMuted, staleFired>>

\* Date.now() advances once every callback that is due has run
TickMuter ==
    /\ now < MuterMaxNow
    /\ \A t \in timers : t.due > now
    /\ nextCleanup > now
    /\ now' = now + TickStep
    /\ UNCHANGED <<msgVars, voiceVars, muterVars>>

InitMuter ==
    /\ now = TickStep
    /\ localStorage = AbsentDoc
    /\ quotaExceeded = FALSE
    /\ storage = EmptyMap
    /\ msettings = MDefaults
    /\ cache = EmptyMap
    /\ nextId = 1
    /\ clean = CleanIdle
    /\ currentGuild = NoGuild
    /\ vsettings = VDefaults
    /\ lastUserChannelId = NoChannel
    /\ suppressToastsUntil = 0
    /\ pluginInitialized = FALSE
    /\ initializationSuppressUntil = 0
    /\ initializationStartTime = 0
    /\ processedUsersDuringInit = {}
    /\ userSessions = NoSessions
    /\ voiceLogs = <<>>
    /\ openJoin = NoOpenJoins
    /\ recentSwitch = Undefined
    /\ startup = NoStartup
    /\ voiceChannel \in [MUsers -> VoiceChannels \cup {NoChannel}]
    /\ \E run \in MuterRuns : asettings = run.settings /\ hostMode = run.host
    /\ relationship = [u \in MUsers |-> 0]
    /\ volume = [u \in MUsers |-> 100]
    /\ MuterLoaded

NextMuter ==
    \/ \E userId \in MUsers : MonitorAudio(userId)
    \/ \E voiceStates \in MuterPayloads : MuterVoiceStateUpdates(voiceStates)
    \/ RelationshipUpdate
    \/ \E t \in timers : TimerFires(t)
    \/ CleanupExpiredMutes
    \/ Start
    \/ Stop
    \/ TickMuter

SpecMuter == InitMuter /\ [][NextMuter]_vars

(***************************************************************************)
(* Claims on the message log                                               *)
(***************************************************************************)
\* The payloads of MESSAGE_DELETE (one id) and MESSAGE_DELETE_BULK (two ids)
DeleteInputs ==
    {<<a>> : a \in 0 .. MaxHostMsgs} \cup
    {<<a, b>> : a \in 0 .. MaxHostMsgs, b \in 0 .. MaxHostMsgs}

\* The log holds an entry for message id that is marked deleted and has a
\* deleted_timestamp
HasDeletedEntry(store, id) ==
    \E u \in DOMAIN store : \E k \in 1 .. Len(store[u].messages) :
        /\ store[u].messages[k].id = id
        /\ store[u].messages[k].deleted
        /\ store[u].messages[k].deleted_timestamp # Undefined

SoftDeleted(id) ==
    /\ id \in DOMAIN cache'
    /\ cache'[id].deleted
    /\ HasDeletedEntry(storage', id)

MayBeEvicted(ids, i) ==
    /\ i < Len(ids)
    /\ Len(getMessages(storage', cache[ids[i]].author)) = maxMessagesPerUser

C8_WithinMaxMessages ==
    \A u \in DOMAIN storage : Len(storage[u].messages) <= msettings.maxMessages

(***************************************************************************)
(* Claims on the voice log                                                 *)
(***************************************************************************)
\* The entries of the calls, the entry of the last call first
newestFirst(calls) ==
    [i \in 1 .. Len(calls) |-> calls[Len(calls) + 1 - i].entry]

\* C2: with maxLogEntries = N > 0 the stored voice log has at most N entries
\* after the saves of a handler run; with maxLogEntries = 0 every entry
\* saved is put in front of the log and no entry is dropped
C2_LogBounded ==
    [][\A voiceStates \in Payloads :
          VOICE_STATE_UPDATES(voiceStates) =>
              \A calls \in {callsOf(voiceStates)} :
                  (vsettings.enableFileLogging /\ calls # <<>>) =>
                      /\ vsettings.maxLogEntries > 0
                             => Len(voiceLogs') <= vsettings.maxLogEntries
                      /\ vsettings.maxLogEntries = 0
                             => voiceLogs' = newestFirst(calls) \o voiceLogs]_vars

\* A limit of one entry, and the entry kept is a leave with a duration: the
\* save of the leave has dropped the entry of the join
C2_Witness ==
    /\ vsettings.maxLogEntries = 1
    /\ Len(voiceLogs) = 1
    /\ voiceLogs[1].action = "leave"
    /\ voiceLogs[1].sessionDuration # Undefined

\* C4: with trackSessionDuration on, a leave entry of user u carries the time
\* since u's most recent logged join into the channel that is left, and no
\* sessionDuration when no join into that channel was logged
C4_SessionDuration ==
    [][\A voiceStates \in Payloads :
          VOICE_STATE_UPDATES(voiceStates) =>
              \A calls \in {callsOf(voiceStates)} :
                  vsettings.trackSessionDuration =>
                      \A i \in 1 .. Len(calls) :
                          calls[i].entry.action = "leave" =>
                              LET j == openJoin[calls[i].entry.userId]
                              IN  calls[i].entry.sessionDuration =
                                      IF j.at # Undefined /\ j.channel = voiceChannel'[Me]
                                      THEN now - j.at
                                      ELSE Undefined]_vars

\* The voice state enters, or leaves, the channel the current user is in
\* after the payload
IsJoinEvent(state) ==
    /\ voiceChannel'[Me] # NoChannel
    /\ state.channelId = voiceChannel'[Me]
    /\ state.oldChannelId # voiceChannel'[Me]

IsLeaveEvent(state) ==
    /\ voiceChannel'[Me] # NoChannel
    /\ state.oldChannelId = voiceChannel'[Me]
    /\ state.channelId # voiceChannel'[Me]

\* Call i of logVoiceEvent is for the user with the action
IsCall(calls, i, userId, action) ==
    calls[i].entry.userId = userId /\ calls[i].entry.action = action

\* The entry of call i is in the log after the handler, unless a limit of
\* maxLogEntries has dropped it for the entries of the later calls
Saved(calls, i) ==
    LET pos == Len(calls) + 1 - i
    IN  \/ vsettings.maxLogEntries > 0 /\ pos > vsettings.maxLogEntries
        \/ pos <= Len(voiceLogs') /\ voiceLogs'[pos] = calls[i].entry

\* The settings let events of the user through
Eligible(userId) ==
    /\ userId = Me => vsettings.logOwnActions
    /\ vsettings.userFilter # {} => userId \in vsettings.userFilter

\* In the startup window the user was in the channel at initialization or
\* has a logged join since
StartupDuplicate(userId) ==
    /\ startup'.at # Undefined
    /\ userId \in startup'.present \cup startup.joined

\* The handler runs within TOAST_SUPPRESSION_DURATION of a channel switch
InSwitchWindow ==
    /\ vsettings.suppressToastsForExistingUsers
    /\ pluginInitialized'
    /\ recentSwitch' # Undefined

\* C5 as stated: in the channel-switch window every join event shows no
\* toast and is saved to the log, every leave event shows a toast
C5_SwitchWindowAsStated ==
    [][\A voiceStates \in Payloads :
          VOICE_STATE_UPDATES(voiceStates) =>
              \A calls \in {callsOf(voiceStates)} :
                  InSwitchWindow =>
                      \A k \in 1 .. Len(voiceStates) :
                          /\ IsJoinEvent(voiceStates[k]) =>
                                 \E i \in 1 .. Len(calls) :
                                     /\ IsCall(calls, i, voiceStates[k].userId, "join")
                                     /\ ~showsToast(calls[i])
                                     /\ vsettings.enableFileLogging
                                     /\ Saved(calls, i)
                          /\ IsLeaveEvent(voiceStates[k]) =>
                                 \E i \in 1 .. Len(calls) :
                                     /\ IsCall(calls, i, voiceStates[k].userId, "leave")
                                     /\ showsToast(calls[i])]_vars

\* C5: in the channel-switch window every join event that the settings let
\* through and that is no startup duplicate is logged; every logged join
\* shows no toast and, with file logging on, is saved; every logged leave
\* shows a toast when toast notifications are on
C5_SwitchWindow ==
    [][\A voiceStates \in Payloads :
          VOICE_STATE_UPDATES(voiceStates) =>
              \A calls \in {callsOf(voiceStates)} :
                  InSwitchWindow =>
                      /\ \A k \in 1 .. Len(voiceStates) :
                             (/\ IsJoinEvent(voiceStates[k])
                              /\ Eligible(voiceStates[k].userId)
                              /\ ~StartupDuplicate(voiceStates[k].userId))
                             => \E i \in 1 .. Len(calls) :
                                    IsCall(calls, i, voiceStates[k].userId, "join")
                      /\ \A i \in 1 .. Len(calls) :
                             /\ calls[i].entry.action = "join" =>
                                    /\ ~showsToast(calls[i])
                                    /\ vsettings.enableFileLogging => Saved(calls, i)
                             /\ calls[i].entry.action = "leave" =>
                                    (vsettings.showToastNotifications => showsToast(calls[i]))]_vars

\* The startup window is over, a switch into the current channel was seen at
\* this instant, and the join of u1 into that channel, logged at this
\* instant, is on top of the log
C5_Witness ==
    /\ vsettings.suppressToastsForExistingUsers
    /\ pluginInitialized
    /\ startup.at = Undefined
    /\ recentSwitch = now
    /\ voiceChannel[Me] # NoChannel
    /\ lastUserChannelId = voiceChannel[Me]
    /\ openJoin["u1"] = [at |-> now, channel |-> voiceChannel[Me]]
    /\ voiceLogs # <<>>
    /\ voiceLogs[1] = [userId |-> "u1", channelId |-> voiceChannel[Me],
                       action |-> "join", sessionDuration |-> Undefined]

\* C6: in the startup window no join is logged for a user who was in the
\* channel at initialization, no user gets a second join entry, every join
\* logged shows no toast, and a handler run without a logged event leaves
\* the log as it was
C6_StartupWindow ==
    [][\A voiceStates \in Payloads :
          VOICE_STATE_UPDATES(voiceStates) =>
              \A calls \in {callsOf(voiceStates)} :
                  (vsettings.suppressToastsForExistingUsers /\ startup'.at # Undefined) =>
                      /\ \A i \in 1 .. Len(calls) :
                             calls[i].entry.action = "join" =>
                                 /\ calls[i].entry.userId \notin startup'.present
                                 /\ calls[i].entry.userId \notin startup.joined
                                 /\ \A j \in 1 .. Len(calls) :
                                        IsCall(calls, j, calls[i].entry.userId, "join")
                                            => j = i
                                 /\ ~showsToast(calls[i])
                      /\ calls = <<>> => voiceLogs' = voiceLogs]_vars

\* In the startup window a join event of u1, who was in the channel at
\* initialization, was seen and the log holds no entry of u1; a join of the
\* current user was logged
C6_Witness ==
    /\ startup.at # Undefined
    /\ "u1" \in startup.present
    /\ "u1" \in startup.skipped
    /\ startup.joined = {Me}
    /\ \A i \in 1 .. Len(voiceLogs) : voiceLogs[i].userId = Me

\* C7 as stated: a voice state is logged as a join when it enters the
\* current user's channel, as a leave when it leaves it, and is not logged
\* otherwise
C7_ActiveChannelAsStated ==
    [][\A voiceStates \in Payloads :
          VOICE_STATE_UPDATES(voiceStates) =>
              \A calls \in {callsOf(voiceStates)} :
                  \A k \in 1 .. Len(voiceStates) :
                      LET state == voiceStates[k]
                          loggedAs(action) ==
                              \E i \in 1 .. Len(calls) :
                                  IsCall(calls, i, state.userId, action)
                      IN  /\ loggedAs("join") <=> IsJoinEvent(state)
                          /\ loggedAs("leave") <=> IsLeaveEvent(state)]_vars

\* C7: every logged event is a join that enters, or a leave that leaves, the
\* current user's channel; nothing is logged for a state that does neither
\* or both, or when the current user is in no channel; a join that the
\* settings let through and that is no startup duplicate is logged, and so
\* is a leave that the settings let through unless only joins are logged
C7_ActiveChannel ==
    [][\A voiceStates \in Payloads :
          VOICE_STATE_UPDATES(voiceStates) =>
              \A calls \in {callsOf(voiceStates)} :
                  /\ \A i \in 1 .. Len(calls) :
                         \E k \in 1 .. Len(voiceStates) :
                             /\ voiceStates[k].userId = calls[i].entry.userId
                             /\ calls[i].entry.action = "join" => IsJoinEvent(voiceStates[k])
                             /\ calls[i].entry.action = "leave" => IsLeaveEvent(voiceStates[k])
                             /\ calls[i].entry.action \in {"join", "leave"}
                  /\ \A k \in 1 .. Len(voiceStates) :
                         LET state == voiceStates[k]
                             loggedAs(action) ==
                                 \E i \in 1 .. Len(calls) :
                                     IsCall(calls, i, state.userId, action)
                         IN  /\ (/\ IsJoinEvent(state)
                                 /\ Eligible(state.userId)
                                 /\ ~StartupDuplicate(state.userId)) => loggedAs("join")
                             /\ (/\ IsLeaveEvent(state)
                                 /\ Eligible(state.userId)
                                 /\ ~vsettings.onlyLogJoins) => loggedAs("leave")]_vars

\* The log holds a join of u1 into the current user's channel and, on top,
\* u1's leave to no channel
C7_Witness ==
    /\ Len(voiceLogs) = 2
    /\ voiceChannel[Me] # NoChannel
    /\ voiceChannel["u1"] = NoChannel
    /\ voiceLogs[2].userId = "u1" /\ voiceLogs[2].action = "join"
    /\ voiceLogs[2].channelId = voiceChannel[Me]
    /\ voiceLogs[1].userId = "u1" /\ voiceLogs[1].action = "leave"
    /\ voiceLogs[1].channelId = voiceChannel[Me]

(***************************************************************************)
(* Claims on AutoMuter                                                     *)
(***************************************************************************)
\* C9: a user auto-muted by noise detection is unmuted when muteDuration
\* seconds have passed: once the clock is past the unmute time of the mute,
\* the user's volume is not 0 and the user is not in mutedUsers (with a host
\* that applies every volume it is given)
C9_EventuallyUnmuted ==
    hostMode = "applies" =>
        \A u \in MUsers :
            (autoMuted[u] # Undefined /\ now > autoMuted[u]) =>
                volume[u] # 0 /\ mutedUsers[u] = Undefined

C11_DisabledChangesNoVolume ==
    [][~asettings.enablePlugin => volume' = volume]_vars

(***************************************************************************)
(* Claims on what logMessage adds to the message log                       *)
(***************************************************************************)
\* The entries of all lists of the message log
EntriesOf(store) ==
    UNION {{store[u].messages[k] : k \in 1 .. Len(store[u].messages)} :
              u \in DOMAIN store}

\* C12: while logSelfMessages is off, no step (MESSAGE_CREATE, MESSAGE_UPDATE,
\* MESSAGE_DELETE, MESSAGE_DELETE_BULK) puts an entry whose author is the
\* current user into the message log
C12_NoSelfMessages ==
    [][~msettings.logSelfMessages =>
          \A e \in EntriesOf(storage') :
              e.author = Me => e \in EntriesOf(storage)]_vars

\* Witness of C12: with logSelfMessages off a message of the current user was
\* created and deleted, a message of another user was logged, and the log
\* has no entry of the current user
C12_Witness ==
    /\ ~msettings.logSelfMessages
    /\ \E id \in DOMAIN cache : cache[id].author = Me /\ cache[id].deleted
    /\ \E e \in EntriesOf(storage) : e.author = "u1"
    /\ \A e \in EntriesOf(storage) : e.author # Me

\* The log holds a DM message (guild_id null) of the current user in the
\* conversation with the target user, for a message that was there when the
\* command started
HoldsOwnDM(store, targetUserId, existing) ==
    \E e \in EntriesOf(store) :
        /\ e.author = Me
        /\ e.guild_id = NoGuild
        /\ e.channel_id \in dmChannelOf(targetUserId)
        /\ e.id \in existing

\* C13: when cleanDMMessages(targetUserId) returns true, the message log
\* holds no DM message of the current user in the conversation with the
\* target user, whatever MESSAGE_DELETE events were handled while it ran
C13_CleanDM ==
    [][/\ CleanDMReturns => ~HoldsOwnDM(storage', clean.target, clean.existing)
       /\ \A targetUserId \in MsgUsers \ MsgBots :
              (HandleCleanDM(targetUserId) /\ clean'.pc = "idle")
                  => ~HoldsOwnDM(storage', targetUserId, DOMAIN cache)]_vars

\* C14: a deleted message that passes the author checks is added to the log
\* with deleted = true, whatever it carries and whatever the logImages,
\* logStickers, logGifs and logEmbeds settings are: once handleDelete has
\* come to its id, the log holds its deleted entry
C14_DeletedAlwaysLogged ==
    [][\A ids \in DeleteInputs :
          (nextId' = nextId /\ handleDelete(ids)) =>
              \A i \in 1 .. Len(ids) :
                  (ids[i] \in DOMAIN cache /\ passesAuthorChecks(cache[ids[i]]))
                      => /\ HasDeletedEntry(handleDeleteLog(storage, SubSeq(ids, 1, i)),
                                            ids[i])
                         /\ Len(ids) = 1 => HasDeletedEntry(storage', ids[i])]_vars

\* Witness of C14: with the four settings off, the log holds the deleted
\* entry of a message without content, attachments, embeds and stickers
C14_Witness ==
    /\ ~msettings.logImages /\ ~msettings.logStickers
    /\ ~msettings.logGifs /\ ~msettings.logEmbeds
    /\ \E e \in EntriesOf(storage) :
           /\ e.deleted
           /\ e.content = "" /\ e.attachments = <<>>
           /\ e.embeds = <<>> /\ e.sticker_items = <<>>

\* C15: while logImages and logGifs are both off, no entry that a step adds
\* to the message log carries attachments
C15_NoAttachmentsLogged ==
    [][(~msettings.logImages /\ ~msettings.logGifs) =>
          \A e \in EntriesOf(storage') :
              e \notin EntriesOf(storage) => e.attachments = <<>>]_vars

(***************************************************************************)
(* Claims on MessageStorage                                                *)
(***************************************************************************)
\* C16: constructing a MessageStorage never throws (the constructor can
\* complete whatever localStorage holds), and it leaves an empty store when
\* the stored value is absent or cannot be read or parsed
C16_ConstructorNeverThrows ==
    [][/\ ENABLED Constructor
       /\ Constructor =>
              /\ ~localStorage.present => storage' = EmptyMap
              /\ (localStorage.present /\ ~(localStorage.valid /\ localStorage.iterable))
                     => storage' = EmptyMap
              /\ (localStorage.present /\ localStorage.valid /\ localStorage.iterable)
                     => stringify(storage') = localStorage]_vars

\* Witness of C16: a store constructed from a value that cannot be parsed
C16_Witness ==
    /\ localStorage.present
    /\ ~(localStorage.valid /\ localStorage.iterable)
    /\ storage = EmptyMap

\* No list of the store holds two entries with the same message id
NoDuplicateIds(store) ==
    \A u \in DOMAIN store :
        \A j, k \in 1 .. Len(store[u].messages) :
            store[u].messages[j].id = store[u].messages[k].id => j = k

\* C17: addMessage for an id that the user's list holds replaces that entry
\* at its index and leaves the other entries and the length as they are;
\* for a new id it puts the message in front of the list; and, from an empty
\* store, no step of addMessage, clearMessages, clearAllMessages and
\* cleanDMMessages leaves a list with two entries of the same id
C17_ReplaceInPlace ==
    [][/\ NoDuplicateIds(storage')
       /\ \A userId \in MsgUsers \ MsgBots, id \in 1 .. MaxMsgId, kind \in StorageMsgKinds :
              LET message == LoggedMessage(id, kind[1], kind[2], FALSE, now)
                  before == getMessages(storage, userId)
                  after == getMessages(storage', userId)
                  existingIndex == findIndex(before, id)
              IN  storage' = addMessage(storage, userId, message, now) =>
                      IF existingIndex # 0
                      THEN /\ Len(after) = Len(before)
                           /\ after[existingIndex] = message
                           /\ \A j \in 1 .. Len(before) :
                                  j # existingIndex => after[j] = before[j]
                      ELSE /\ after[1] = message
                           /\ Len(after) = Min(Len(before) + 1, maxMessagesPerUser)
                           /\ \A j \in 2 .. Len(after) : after[j] = before[j - 1]]_vars

\* Witness of C17: a full list whose entries have different ids, the older
\* one logged in a guild and the newer one in a DM
C17_Witness ==
    \E u \in DOMAIN storage :
        /\ Len(storage[u].messages) = maxMessagesPerUser
        /\ storage[u].messages[1].id # storage[u].messages[2].id
        /\ storage[u].messages[1].guild_id = NoGuild
        /\ storage[u].messages[2].guild_id = "G"

\* C18: an unmute timer acts only if the mutedUsers entry of its user holds
\* the unmute time the timer was set for.  Then it removes the entry and
\* unmutes; otherwise (no entry, or the entry of a later mute) it changes no
\* volume, no mutedUsers entry and no processedUsers
C18_OwnUnmuteTimeOnly ==
    [][\A t \in timers :
          (TimerFires(t) /\ t.kind = "unmute") =>
              IF mutedUsers[t.userId] # Undefined /\ mutedUsers[t.userId] = t.unmuteTime
              THEN /\ mutedUsers'[t.userId] = Undefined
                   /\ \A u \in MUsers \ {t.userId} : mutedUsers'[u] = mutedUsers[u]
                   /\ hostMode = "applies" => volume'[t.userId] # 0
              ELSE /\ mutedUsers' = mutedUsers
                   /\ volume' = volume
                   /\ processedUsers' = processedUsers]_vars

\* Witness of C18: the timer of a cleared mute has fired while its user was
\* muted again, and the later mute is still in place: the user has volume 0,
\* the entry of the later mute, and that mute's own timer is pending
C18_Witness ==
    /\ staleFired
    /\ hostMode = "applies"
    /\ volume["u1"] = 0
    /\ mutedUsers["u1"] # Undefined
    /\ mutedUsers["u1"] > now
    /\ \A t \in timers : t.kind = "unmute" => t.unmuteTime = mutedUsers["u1"]
    /\ \E t \in timers : t.kind = "unmute" /\ t.userId = "u1"

====
